---- MODULE Spec2Model ----
(***************************************************************************)
(* Model of the `delivery init` workflow of delivery-cli:                  *)
(*   src/delivery/command/init.rs  (run and its helpers)                   *)
(*   src/delivery/project/mod.rs   (the project materializers)             *)
(*   src/delivery/utils/mod.rs     (file_needs_updated, walk_tree_for_path)*)
(* The external world (server, git repository, filesystem) is the state;   *)
(* one action models one step of run.  `log` records, per run, the calls   *)
(* made to the collaborators (API client, git, chef, filesystem).          *)
(***************************************************************************)
EXTENDS Naturals, Sequences, FiniteSets

VARIABLES
    init_opts,        \* InitClapOptions given to run (the same for every run)
    projectExists,    \* server: the project record exists
    pipelineExists,   \* server: the pipeline record exists
    scpConfig,        \* server: providers whose integration config is non-empty
    upstream,         \* server: the pipeline branch has commits (git::server_content)
    deliveryRemote,   \* git: the remote named 'delivery': "none", "ok", "other"
    remotes,          \* git: names of the remotes other than 'delivery'
    branchExists,     \* git: local branch 'add-delivery-config' exists
    head,             \* git: checked-out branch: "pipeline" or "feature"
    dotDelivery,      \* fs: .delivery exists
    buildCookbook,    \* fs: .delivery/build-cookbook exists
    configJson,       \* fs: content of .delivery/config.json, 0 when absent
    cacheDir,         \* fs: the generator cache directory exists
    generatorCached,  \* fs: the generator's directory exists inside the cache
    pc,               \* position of run
    result,           \* outcome of run: "none", "0", "1", "err"
    error,            \* the DeliveryError kind (or "panic") when result is "1"/"err"
    ret,              \* value returned by the last materializer
    custom_build_cookbook_generated,   \* init.rs:67
    custom_config_passed,              \* init.rs:86
    log,              \* calls made to collaborators in this run, in order
    rerun             \* this run follows a run that returned 0, with the same options

optVars    == <<init_opts>>
serverVars == <<projectExists, pipelineExists, scpConfig, upstream>>
gitVars    == <<deliveryRemote, remotes, branchExists, head>>
fsVars     == <<dotDelivery, buildCookbook, configJson, cacheDir, generatorCached>>
runVars    == <<pc, result, error, ret, custom_build_cookbook_generated,
                custom_config_passed, log, rerun>>
vars       == <<optVars, serverVars, gitVars, fsVars, runVars>>

\* Contents of a config file are 1..MaxContent; 0 stands for "no file".
MaxContent == 2

Contents == 1..MaxContent

Providers == {"github", "bitbucket"}

\* Option values: strings are "" (empty) or a non-empty value.
GeneratorKinds == {"none", "path", "url"}

Options ==
    [ github_org_name       : {"", "chef"},
      bitbucket_project_key : {"", "CHEF"},
      repo_name             : {"", "repo"},
      pipeline              : {"master"},
      no_v_ssl              : BOOLEAN,
      local                 : BOOLEAN,
      skip_build_cookbook   : BOOLEAN,
      generator             : GeneratorKinds,
      config_json           : 0..MaxContent,
      no_open               : BOOLEAN ]

NoScp == [err |-> "none", kind |-> "none", repo_name |-> "", organization |-> "",
          branch |-> "", verify_ssl |-> FALSE]

ScpError(kind) == [NoScp EXCEPT !.err = kind]

\* SourceCodeProvider::new with an empty branch replaced by "master".
SourceCodeProvider_new_default_branch(scp, repo, org, branch, no_ssl) ==
    IF scp \notin Providers
    THEN ScpError("UnknownProjectType")
    ELSE IF repo = "" \/ org = ""
         THEN ScpError("OptionConstraint")
         ELSE [err |-> "none", kind |-> scp, repo_name |-> repo,
               organization |-> org,
               branch |-> IF branch = "" THEN "master" ELSE branch,
               verify_ssl |-> ~no_ssl]

\* project/mod.rs:46 SourceCodeProvider::new
SourceCodeProvider_new(scp, repo, org, branch, no_ssl) ==
    IF scp \notin Providers
    THEN ScpError("UnknownProjectType")
    ELSE IF repo = "" \/ org = "" \/ branch = ""
         THEN ScpError("OptionConstraint")
         ELSE [err |-> "none", kind |-> scp, repo_name |-> repo,
               organization |-> org, branch |-> branch, verify_ssl |-> ~no_ssl]

\* The dual selection test with the first negation lost.
BothProviders_negation_lost(o) == o.github_org_name = "" /\ o.bitbucket_project_key # ""

\* init.rs:34 the dual selection test
BothProviders(o) == o.github_org_name # "" /\ o.bitbucket_project_key # ""

\* init.rs:41-55 the descriptor built from the options
ScpOf(o) ==
    IF o.github_org_name # ""
    THEN SourceCodeProvider_new("github", o.repo_name, o.github_org_name,
                                o.pipeline, o.no_v_ssl)
    ELSE IF o.bitbucket_project_key # ""
         THEN SourceCodeProvider_new("bitbucket", o.repo_name,
                                     o.bitbucket_project_key, o.pipeline, TRUE)
         ELSE NoScp

scp == ScpOf(init_opts)

----------------------------------------------------------------------------
\* Bookkeeping of one step of run.

\* The step made `calls`, returned r to run, and run goes on at `next`.
Goto(next, calls, r) ==
    /\ pc' = next
    /\ log' = log \o calls
    /\ ret' = r
    /\ UNCHANGED <<result, error, rerun>>

\* run returns: Ok(0), Ok(1) or Err(kind) (a panic is an error of kind "panic").
Return(res, kind, calls) ==
    /\ pc' = "done"
    /\ result' = res
    /\ error' = kind
    /\ log' = log \o calls
    /\ UNCHANGED <<ret, rerun>>

\* A failing call followed by a clean-up that removes .delivery.
Fails_with_cleanup(calls) ==
    /\ \E n \in 1..Len(calls) : Return("err", "failed", SubSeq(calls, 1, n))
    /\ dotDelivery' = FALSE
    /\ UNCHANGED <<optVars, serverVars, gitVars, buildCookbook, configJson, cacheDir,
                   generatorCached, custom_build_cookbook_generated,
                   custom_config_passed>>

\* A failing call reported as exit code 1.
Fails_as_exit_1(calls) ==
    /\ \E n \in 1..Len(calls) : Return("1", "failed", SubSeq(calls, 1, n))
    /\ UNCHANGED <<optVars, serverVars, gitVars, fsVars,
                   custom_build_cookbook_generated, custom_config_passed>>

\* One of the collaborator calls of the step fails before the step has changed
\* anything: the calls up to and including it were made, and the failure ends run
\* (try! / unwrap).
Fails(calls) ==
    /\ \E n \in 1..Len(calls) : Return("err", "failed", SubSeq(calls, 1, n))
    /\ UNCHANGED <<optVars, serverVars, gitVars, fsVars,
                   custom_build_cookbook_generated, custom_config_passed>>

Flags == <<custom_build_cookbook_generated, custom_config_passed>>

\* The first n calls of a step (all of them when it makes fewer).
Upto(calls, n) == SubSeq(calls, 1, IF n < Len(calls) THEN n ELSE Len(calls))

Bool(b) == IF b THEN "true" ELSE "false"

\* The call c is one of `calls`.
Called(calls, c) == \E i \in 1..Len(calls) : calls[i] = c

\* The cookbook step that looks at the generator before skip_build_cookbook.
CookbookStep_generator_first(o) ==
    IF o.generator # "none" THEN "custom_generator"
    ELSE IF o.skip_build_cookbook THEN "config"
    ELSE "default_cookbook"

\* init.rs:67-84 where run goes after the server steps
CookbookStep(o) ==
    IF o.skip_build_cookbook THEN "config"
    ELSE IF o.generator = "none" THEN "default_cookbook"
    ELSE "custom_generator"

\* init.rs:61-63 and init.rs:153-180 where run goes after create_dot_delivery
ServerStep(o, s) ==
    IF o.local THEN CookbookStep(o)
    ELSE IF s.kind = "none" THEN "project"
    ELSE "verify"

----------------------------------------------------------------------------
\* Steps 1 and 2 of run.

\* The first step without the try! on SourceCodeProvider::new.
Validate_descriptor_unchecked ==
    /\ pc = "validate"
    /\ IF BothProviders(init_opts)
       THEN Return("1", "none", <<>>)
       ELSE Goto("dot", <<>>, "()")
    /\ UNCHANGED <<optVars, serverVars, gitVars, fsVars, Flags>>

\* init.rs:34-55 dual selection is refused with Ok(1); a descriptor that cannot be
\* built is an Err; nothing else is touched.
Validate ==
    /\ pc = "validate"
    /\ IF BothProviders(init_opts)
       THEN Return("1", "none", <<>>)
       ELSE IF scp.err # "none"
            THEN Return("err", scp.err, <<>>)
            ELSE Goto("dot", <<>>, "()")
    /\ UNCHANGED <<optVars, serverVars, gitVars, fsVars, Flags>>

\* init.rs:58-59, project/mod.rs:265 create_dot_delivery (fs::create_dir_all)
CreateDotDelivery ==
    /\ pc = "dot"
    /\ dotDelivery' = TRUE
    /\ Goto(ServerStep(init_opts, scp), <<"create_dir_all">>, "()")
    /\ UNCHANGED <<optVars, serverVars, gitVars, buildCookbook, configJson,
                   cacheDir, generatorCached, Flags>>

----------------------------------------------------------------------------
\* Step 3: create_on_server.

GetServerConfigCall(kind) ==
    IF kind = "github" THEN "get_github_server_config"
    ELSE "get_bitbucket_server_config"

\* verify_server_config asking for the other provider's configuration.
verify_server_config_swapped(kind, cfg) ==
    IF kind = "github"
    THEN IF "bitbucket" \in cfg THEN "none" ELSE "NoGithubSCPConfig"
    ELSE IF "github" \in cfg THEN "none" ELSE "NoBitbucketSCPConfig"

\* project/mod.rs:83 verify_server_config: the error it returns, "none" for Ok(())
verify_server_config(kind, cfg) ==
    IF kind = "github"
    THEN IF "github" \in cfg THEN "none" ELSE "NoGithubSCPConfig"
    ELSE IF "bitbucket" \in cfg THEN "none" ELSE "NoBitbucketSCPConfig"

\* init.rs:157 try!(scp_config.verify_server_config(&client))
VerifyServerConfig ==
    /\ pc = "verify"
    /\ LET calls == <<GetServerConfigCall(scp.kind)>>
           e == verify_server_config(scp.kind, scpConfig)
       IN  \/ /\ IF e = "none"
                 THEN Goto("link", calls, "()")
                 ELSE Return("err", e, calls)
              /\ UNCHANGED <<optVars, serverVars, gitVars, fsVars, Flags>>
           \/ Fails(calls)

\* init.rs:168-176 client.create_github_project, made without a probe
CreateGithubProject ==
    /\ pc = "link"
    /\ scp.kind = "github"
    /\ LET calls == <<"create_github_project">>
       IN  \/ /\ projectExists' = TRUE
              /\ Goto(CookbookStep(init_opts), calls, "()")
              /\ UNCHANGED <<optVars, pipelineExists, scpConfig, upstream,
                             gitVars, fsVars, Flags>>
           \/ Fails(calls)

\* init.rs:223-228 client.create_bitbucket_project, made without a probe
CreateBitbucketProject ==
    /\ pc = "link"
    /\ scp.kind = "bitbucket"
    /\ LET calls == <<"create_bitbucket_project">>
       IN  \/ /\ projectExists' = TRUE
              /\ Goto("remote", calls, "()")
              /\ UNCHANGED <<optVars, pipelineExists, scpConfig, upstream,
                             gitVars, fsVars, Flags>>
           \/ Fails(calls)

\* The project materializer that ignores the answer of its probe.
create_delivery_project_always(exists) ==
    [ret |-> TRUE, calls |-> <<"project_exists", "create_delivery_project">>]

\* project/mod.rs:116 create_delivery_project: [ret, calls] for a probe answer
create_delivery_project(exists) ==
    IF exists
    THEN [ret |-> FALSE, calls |-> <<"project_exists">>]
    ELSE [ret |-> TRUE,  calls |-> <<"project_exists", "create_delivery_project">>]

\* The project step followed at once by the push, the remote step left out.
CreateDeliveryProject_then_push ==
    /\ pc = "project"
    /\ LET m == create_delivery_project(projectExists)
       IN  \/ /\ projectExists' = (projectExists \/ Called(m.calls, "create_delivery_project"))
              /\ Goto("push", m.calls, Bool(m.ret))
              /\ UNCHANGED <<optVars, pipelineExists, scpConfig, upstream,
                             gitVars, fsVars, Flags>>
           \/ Fails(m.calls)

\* init.rs:183
CreateDeliveryProject ==
    /\ pc = "project"
    /\ LET m == create_delivery_project(projectExists)
       IN  \/ /\ projectExists' = (projectExists \/ Called(m.calls, "create_delivery_project"))
              /\ Goto("remote", m.calls, Bool(m.ret))
              /\ UNCHANGED <<optVars, pipelineExists, scpConfig, upstream,
                             gitVars, fsVars, Flags>>
           \/ Fails(m.calls)

\* git::config_repo as the remote materializer needs it: add the remote when there
\* is none, no-op when it is correct, an error when it points elsewhere.
config_repo(remote) ==
    IF remote = "none" THEN [err |-> FALSE, ret |-> TRUE,
                             calls |-> <<"config_repo", "remote_add">>]
    ELSE IF remote = "ok" THEN [err |-> FALSE, ret |-> FALSE, calls |-> <<"config_repo">>]
    ELSE [err |-> TRUE, ret |-> FALSE, calls |-> <<"config_repo">>]

\* The materializer with unwrap_or(false) in place of unwrap: an error of
\* git::config_repo is answered as "not created".
create_delivery_remote_error_dropped(remote) ==
    [config_repo(remote) EXCEPT !.err = FALSE]

\* project/mod.rs:140 create_delivery_remote_if_missing
create_delivery_remote_if_missing(remote) == config_repo(remote)

\* init.rs:192 and init.rs:230
CreateDeliveryRemote ==
    /\ pc = "remote"
    /\ LET m == create_delivery_remote_if_missing(deliveryRemote)
       IN  \/ /\ IF m.err
                 THEN /\ Return("err", "remote", m.calls)
                      /\ UNCHANGED deliveryRemote
                 ELSE /\ Goto("push", m.calls, Bool(m.ret))
                      /\ deliveryRemote' = IF Called(m.calls, "remote_add")
                                           THEN "ok" ELSE deliveryRemote
              /\ UNCHANGED <<optVars, serverVars, remotes, branchExists, head,
                             fsVars, Flags>>
           \/ Fails(m.calls)

\* The push materializer with the test of server_content inverted.
push_project_content_inverted(server_content) ==
    IF ~server_content
    THEN [ret |-> FALSE, calls |-> <<"server_content">>]
    ELSE [ret |-> TRUE,  calls |-> <<"server_content", "git_push_master">>]

\* project/mod.rs:129 push_project_content_to_delivery
push_project_content_to_delivery(server_content) ==
    IF server_content
    THEN [ret |-> FALSE, calls |-> <<"server_content">>]
    ELSE [ret |-> TRUE,  calls |-> <<"server_content", "git_push_master">>]

\* init.rs:201 (then the pipeline) and init.rs:240 (the last step for Bitbucket)
PushProjectContent ==
    /\ pc = "push"
    /\ LET m == push_project_content_to_delivery(upstream)
           next == IF scp.kind = "none" THEN "pipeline" ELSE CookbookStep(init_opts)
       IN  \/ /\ upstream' = (upstream \/ Called(m.calls, "git_push_master"))
              /\ Goto(next, m.calls, Bool(m.ret))
              /\ UNCHANGED <<optVars, projectExists, pipelineExists, scpConfig,
                             gitVars, fsVars, Flags>>
           \/ Fails(m.calls)

\* project/mod.rs:104 create_delivery_pipeline
create_delivery_pipeline(exists) ==
    IF exists
    THEN [ret |-> FALSE, calls |-> <<"pipeline_exists">>]
    ELSE [ret |-> TRUE,  calls |-> <<"pipeline_exists", "create_pipeline">>]

\* init.rs:211
CreateDeliveryPipeline ==
    /\ pc = "pipeline"
    /\ LET m == create_delivery_pipeline(pipelineExists)
       IN  \/ /\ pipelineExists' = (pipelineExists \/ Called(m.calls, "create_pipeline"))
              /\ Goto(CookbookStep(init_opts), m.calls, Bool(m.ret))
              /\ UNCHANGED <<optVars, projectExists, scpConfig, upstream,
                             gitVars, fsVars, Flags>>
           \/ Fails(m.calls)

----------------------------------------------------------------------------
\* Step 4: the build cookbook.

\* What the scaffolding tool leaves in .delivery/config.json: it writes content w,
\* or (w = 0) it writes no config and the file stays as it was.
ChefWrites(w, old) == IF w = 0 THEN old ELSE w

\* The default variant without the push of the generated cookbook.
generate_default_build_cookbook_unpushed(exists) ==
    IF exists
    THEN <<"exists_build_cookbook">>
    ELSE <<"exists_build_cookbook", "chef_generate_build_cookbook">>

\* init.rs:261-276 the default variant of generate_build_cookbook
generate_default_build_cookbook(exists) ==
    IF exists
    THEN <<"exists_build_cookbook">>
    ELSE <<"exists_build_cookbook", "chef_generate_build_cookbook", "git_push">>

GenerateDefaultBuildCookbook ==
    /\ pc = "default_cookbook"
    /\ LET calls == generate_default_build_cookbook(buildCookbook)
           made  == Called(calls, "chef_generate_build_cookbook")
       IN  \/ /\ \E w \in 0..MaxContent :
                    configJson' = IF made THEN ChefWrites(w, configJson) ELSE configJson
              /\ buildCookbook' = (buildCookbook \/ made)
              /\ upstream' = (upstream \/ (Called(calls, "git_push") /\ deliveryRemote = "ok"))
              /\ custom_build_cookbook_generated' = FALSE
              /\ Goto("config", calls, "false")
              /\ UNCHANGED <<optVars, projectExists, pipelineExists, scpConfig, gitVars,
                             dotDelivery, cacheDir, generatorCached, custom_config_passed>>
           \/ Fails(Upto(calls, 2))
           \* init.rs:271 the push fails after the scaffold was generated: it stays
           \/ /\ Called(calls, "git_push")
              /\ \E w \in 0..MaxContent : configJson' = ChefWrites(w, configJson)
              /\ buildCookbook' = TRUE
              /\ Return("err", "failed", calls)
              /\ UNCHANGED <<optVars, serverVars, gitVars, dotDelivery, cacheDir,
                             generatorCached, Flags>>

\* utils/mod.rs:52 mkdir_recursive (fs::create_dir_all): whether the directory exists
\* afterwards, given whether it existed before
mkdir_recursive(exists) == TRUE

\* project/mod.rs:295 download_or_mv_custom_build_cookbook_generator; is_dir is
\* asked of cache_path after mkdir_recursive(cache_path).
download_or_mv_custom_build_cookbook_generator(generator, cache_is_dir) ==
    LET is_dir == mkdir_recursive(cache_is_dir)
    IN  IF generator = "path"
        THEN [ret |-> "Disk", calls |-> <<"mkdir_recursive", "copy_recursive">>]
        ELSE IF is_dir
             THEN [ret |-> "Cached", calls |-> <<"mkdir_recursive">>]
             ELSE [ret |-> "Git", calls |-> <<"mkdir_recursive", "clone">>]

\* init.rs:283-296
DownloadGenerator ==
    /\ pc = "custom_generator"
    /\ LET m == download_or_mv_custom_build_cookbook_generator(init_opts.generator, cacheDir)
       IN  \/ /\ cacheDir' = mkdir_recursive(cacheDir)
              /\ generatorCached' = (generatorCached \/ Called(m.calls, "copy_recursive")
                                                     \/ Called(m.calls, "clone"))
              /\ Goto("chef_generate", m.calls, m.ret)
              /\ UNCHANGED <<optVars, serverVars, gitVars, dotDelivery, buildCookbook,
                             configJson, Flags>>
           \/ Fails(Upto(m.calls, 1))
           \* project/mod.rs:298,305 the copy or clone fails after the cache directory
           \* was made: the directory stays
           \/ /\ Len(m.calls) > 1
              /\ cacheDir' = mkdir_recursive(cacheDir)
              /\ Return("err", "failed", m.calls)
              /\ UNCHANGED <<optVars, serverVars, gitVars, dotDelivery, buildCookbook,
                             configJson, generatorCached, Flags>>

\* The test for MissingConfigFile left out.
config_missing_unchecked(config) == FALSE

\* init.rs:302-305 the test for MissingConfigFile: !config_path.exists()
config_missing(config) == config = 0

\* init.rs:298-306 the scaffolding tool is run with the generator of the cache, then
\* .delivery/config.json must exist; init.rs:72-78 run turns MissingConfigFile into Ok(1).
ChefGenerateCustom ==
    /\ pc = "chef_generate"
    /\ LET calls == <<"chef_generate_cookbook_g">>
       IN  \/ /\ generatorCached
              /\ \E w \in 0..MaxContent : configJson' = ChefWrites(w, configJson)
              /\ buildCookbook' = TRUE
              /\ IF config_missing(configJson')
                 THEN /\ Return("1", "MissingConfigFile", calls)
                      /\ UNCHANGED custom_build_cookbook_generated
                 ELSE /\ Goto("config", calls, "true")
                      /\ custom_build_cookbook_generated' = TRUE
              /\ UNCHANGED <<optVars, serverVars, gitVars, dotDelivery, cacheDir,
                             generatorCached, custom_config_passed>>
           \/ Fails(calls)

----------------------------------------------------------------------------
\* Step 5: the custom config.

\* utils/mod.rs:135-149 the digest compared: contents are told apart by their digests
Md5(content) == <<"md5", content>>

\* file_needs_updated without the early return for equal digests.
file_needs_updated_always(source, dest) == TRUE

\* utils/mod.rs:133 file_needs_updated(source_f, dest_f), dest = 0 when it is absent
file_needs_updated(source, dest) ==
    IF dest # 0 /\ Md5(source) = Md5(dest) THEN FALSE ELSE TRUE

\* DeliveryConfig::copy_config_file: copies when file_needs_updated says so
copy_config_file(source, dest) ==
    IF file_needs_updated(source, dest)
    THEN [ret |-> TRUE,  calls |-> <<"file_needs_updated", "copy_config">>]
    ELSE [ret |-> FALSE, calls |-> <<"file_needs_updated">>]

\* init.rs:309 generate_delivery_config
generate_delivery_config(config_json, dest) ==
    IF config_json # 0
    THEN copy_config_file(config_json, dest)
    ELSE [ret |-> FALSE, calls |-> <<>>]

\* The branch decision with `&&` in place of `||`.
NeedsBranch_both(cookbook_generated, config_passed) == cookbook_generated /\ config_passed

\* init.rs:93 the branch decision
NeedsBranch(cookbook_generated, config_passed) == cookbook_generated \/ config_passed

\* init.rs:86-93
GenerateDeliveryConfig ==
    /\ pc = "config"
    /\ LET m == generate_delivery_config(init_opts.config_json, configJson)
       IN  \/ /\ configJson' = IF Called(m.calls, "copy_config")
                               THEN init_opts.config_json ELSE configJson
              /\ custom_config_passed' = m.ret
              /\ Goto(IF NeedsBranch(custom_build_cookbook_generated, m.ret)
                      THEN "branch" ELSE "no_custom",
                      m.calls, Bool(m.ret))
              /\ UNCHANGED <<optVars, serverVars, gitVars, dotDelivery, buildCookbook,
                             cacheDir, generatorCached, custom_build_cookbook_generated>>
           \/ /\ m.calls # <<>>
              /\ Fails(m.calls)

----------------------------------------------------------------------------
\* Step 6: feature branch, commit, review.

\* The materializer without the checkout of the branch that already exists.
create_feature_branch_no_checkout(exists) ==
    IF exists
    THEN [ret |-> FALSE, calls |-> <<"checkout_b">>]
    ELSE [ret |-> TRUE,  calls |-> <<"checkout_b">>]

\* The materializer answering "created" for the branch it only switched to.
create_feature_branch_always_created(exists) ==
    IF exists
    THEN [ret |-> TRUE, calls |-> <<"checkout_b", "checkout">>]
    ELSE [ret |-> TRUE, calls |-> <<"checkout_b">>]

\* project/mod.rs:229 create_feature_branch_if_missing: `git checkout -b` creates the
\* branch; when git answers that it already exists, `git checkout` switches to it.
create_feature_branch_if_missing(exists) ==
    IF exists
    THEN [ret |-> FALSE, calls |-> <<"checkout_b", "checkout">>]
    ELSE [ret |-> TRUE,  calls |-> <<"checkout_b">>]

\* init.rs:95
CreateFeatureBranch ==
    /\ pc = "branch"
    /\ LET m == create_feature_branch_if_missing(branchExists)
       IN  \/ /\ branchExists' = TRUE
              /\ head' = IF ~branchExists \/ Called(m.calls, "checkout")
                         THEN "feature" ELSE head
              /\ Goto("commit", m.calls, Bool(m.ret))
              /\ UNCHANGED <<optVars, serverVars, deliveryRemote, remotes,
                             fsVars, Flags>>
           \/ Fails(m.calls)

\* init.rs:115 where run goes after the commit
AfterCommit(o) == IF o.local THEN "finish" ELSE "review"

\* The commit message that mentions the config whatever was copied.
commit_msg_always_config(config_passed) == "commit:Adds Delivery build cookbook and config"

\* project/mod.rs:253 add_commit_build_cookbook: the commit message
commit_msg(config_passed) ==
    IF ~config_passed THEN "commit:Adds Delivery build cookbook and config"
    ELSE "commit:Adds Delivery build cookbook"

\* init.rs:102-105
AddCommitBuildCookbook ==
    /\ pc = "commit"
    /\ custom_build_cookbook_generated
    /\ LET calls == <<"git_add_dot_delivery", commit_msg(custom_config_passed)>>
       IN  \/ /\ Goto(AfterCommit(init_opts), calls, "()")
              /\ UNCHANGED <<optVars, serverVars, gitVars, fsVars, Flags>>
           \/ Fails(calls)

\* init.rs:109-112 DeliveryConfig::git_add_commit_config
GitAddCommitConfig ==
    /\ pc = "commit"
    /\ custom_config_passed /\ ~custom_build_cookbook_generated
    /\ LET calls == <<"git_add_config", "commit:config">>
       IN  \/ /\ Goto(AfterCommit(init_opts), calls, "()")
              /\ UNCHANGED <<optVars, serverVars, gitVars, fsVars, Flags>>
           \/ Fails(calls)

\* Remote names are sequences of characters.
Origin == <<"o", "r", "i", "g", "i", "n">>

OldOrigin == <<"o", "l", "d", "-">> \o Origin

Fork == <<"f", "o", "r", "k">>

RemoteNames == {Origin, OldOrigin, Fork}

\* str::contains: needle is a substring of text
Contains(text, needle) ==
    \E i \in 1..(Len(text) + 1) :
        /\ i + Len(needle) - 1 <= Len(text)
        /\ SubSeq(text, i, i + Len(needle) - 1) = needle

\* project/mod.rs:149 check_github_remote: `git remote` prints one name per line,
\* and the needle has no line break, so stdout contains it iff one line does.
check_github_remote(lines) == \E l \in lines : Contains(l, Origin)

\* init.rs:125 and init.rs:355 project::missing_github_remote
missing_github_remote(lines) == ~check_github_remote(lines)

\* The hint printed when the probe finds 'origin' instead of when it does not.
GithubHint_when_present(origin) ==
    IF origin THEN <<"missing_github_remote", "setup_github_remote_msg">>
    ELSE <<"missing_github_remote">>

\* init.rs:124-130 and init.rs:355-357: the hint is printed when 'origin' is missing
GithubHint(origin) ==
    IF origin THEN <<"missing_github_remote">>
    ELSE <<"missing_github_remote", "setup_github_remote_msg">>

\* init.rs:333 trigger_review: the calls it makes
trigger_review(kind, no_open, origin) ==
    IF kind = "github"
    THEN <<"get_head">> \o GithubHint(origin)
    ELSE <<"get_head", "review", "handle_review_result">>
         \o (IF no_open THEN <<>> ELSE <<"open_browser">>)

\* init.rs:115-118
TriggerReview ==
    /\ pc = "review"
    /\ LET calls == <<"trigger_review">>
                    \o trigger_review(scp.kind, init_opts.no_open,
                                      ~missing_github_remote(remotes))
       IN  \/ /\ Return("0", "none", calls)
              /\ UNCHANGED <<optVars, serverVars, gitVars, fsVars, Flags>>
           \/ Fails(calls)

\* init.rs:119-122 --local: the review is skipped, run returns Ok(0)
SkipReview ==
    /\ pc = "finish"
    /\ Return("0", "none", <<>>)
    /\ UNCHANGED <<optVars, serverVars, gitVars, fsVars, Flags>>

\* init.rs:123-137 nothing custom: no branch, only the GitHub remote hint
NoCustomArtifacts ==
    /\ pc = "no_custom"
    /\ LET calls == IF scp.kind = "github" THEN GithubHint(~missing_github_remote(remotes))
                    ELSE <<>>
       IN  \/ /\ Return("0", "none", calls)
              /\ UNCHANGED <<optVars, serverVars, gitVars, fsVars, Flags>>
           \/ /\ calls # <<>>
              /\ Fails(calls)

----------------------------------------------------------------------------
\* The command is run again, with the same options, on the state the last run left.
Restart ==
    /\ pc = "done"
    /\ pc' = "validate"
    /\ rerun' = (result = "0")
    /\ result' = "none"
    /\ error' = "none"
    /\ ret' = "()"
    /\ log' = <<>>
    /\ custom_build_cookbook_generated' = FALSE
    /\ custom_config_passed' = FALSE
    /\ UNCHANGED <<optVars, serverVars, gitVars, fsVars>>

\* The external states a run can start from.
ServerStates ==
    { s \in [project : BOOLEAN, pipeline : BOOLEAN, upstream : BOOLEAN] :
        (s.pipeline \/ s.upstream) => s.project }

FsStates ==
    { f \in [dot : BOOLEAN, cookbook : BOOLEAN, config : 0..MaxContent] :
        (f.cookbook \/ f.config # 0) => f.dot }

\* A first run with options drawn from `options`, from the external states given by
\* the other sets.
InitFrom(options, origins, servers, configs, deliveries, branches, files, caches) ==
    /\ init_opts \in options
    /\ \E s \in servers :
          /\ projectExists = s.project
          /\ pipelineExists = s.pipeline
          /\ upstream = s.upstream
    /\ scpConfig \in configs
    /\ deliveryRemote \in deliveries
    /\ remotes \in origins
    /\ branchExists \in branches
    /\ head = "pipeline"
    /\ \E f \in files :
          /\ dotDelivery = f.dot
          /\ buildCookbook = f.cookbook
          /\ configJson = f.config
    /\ cacheDir \in caches
    /\ generatorCached = cacheDir
    /\ pc = "validate"
    /\ result = "none"
    /\ error = "none"
    /\ ret = "()"
    /\ custom_build_cookbook_generated = FALSE
    /\ custom_config_passed = FALSE
    /\ log = <<>>
    /\ rerun = FALSE

\* A first run from any external state, with options drawn from `options` and the
\* other remotes from `origins`.
InitOver(options, origins) ==
    InitFrom(options, origins, ServerStates, SUBSET Providers,
             {"none", "ok", "other"}, BOOLEAN, FsStates, BOOLEAN)

\* The options that select the path of the workflow: provider, local,
\* skip_build_cookbook, generator and config_json, with a complete provider
\* description.
WorkflowOptions ==
    { o \in Options : o.repo_name = "repo" /\ ~o.no_v_ssl /\ ~o.no_open }

Init == InitOver(WorkflowOptions, {{}})

Next ==
    \/ Validate
    \/ CreateDotDelivery
    \/ VerifyServerConfig
    \/ CreateGithubProject
    \/ CreateBitbucketProject
    \/ CreateDeliveryProject
    \/ CreateDeliveryRemote
    \/ PushProjectContent
    \/ CreateDeliveryPipeline
    \/ GenerateDefaultBuildCookbook
    \/ DownloadGenerator
    \/ ChefGenerateCustom
    \/ GenerateDeliveryConfig
    \/ CreateFeatureBranch
    \/ AddCommitBuildCookbook
    \/ GitAddCommitConfig
    \/ TriggerReview
    \/ SkipReview
    \/ NoCustomArtifacts
    \/ Restart

Spec == Init /\ [][Next]_vars

----------------------------------------------------------------------------
\* Every combination of the options of run, on a repository that is either untouched or
\* fully set up, with any single other remote.
FreshServer == [project |-> FALSE, pipeline |-> FALSE, upstream |-> FALSE]

LinkedServer == [project |-> TRUE, pipeline |-> TRUE, upstream |-> TRUE]

FreshFiles == [dot |-> FALSE, cookbook |-> FALSE, config |-> 0]

ScaffoldedFiles == [dot |-> TRUE, cookbook |-> TRUE, config |-> 1]

SingleRemotes == {{}} \cup {{n} : n \in RemoteNames}

AllOptions == {o \in Options : ~o.no_v_ssl}

InitOptions ==
    InitFrom(AllOptions, SingleRemotes, {FreshServer, LinkedServer}, {Providers, {}},
             {"none", "ok", "other"}, BOOLEAN, {FreshFiles, ScaffoldedFiles}, {FALSE})

SpecOptions == InitOptions /\ [][Next]_vars

----------------------------------------------------------------------------
\* SourceCodeProvider::new on its own: init_opts holds the arguments of the call
\* and ret the value returned.
Kinds == {"github", "bitbucket", "gitlab", ""}

NewArguments ==
    [scp : Kinds, repo : {"", "repo"}, org : {"", "chef"}, branch : {"", "master"},
     no_ssl : BOOLEAN]

InitNew ==
    /\ init_opts \in NewArguments
    /\ pc = "new"
    /\ ret = "()"
    /\ projectExists = FALSE
    /\ pipelineExists = FALSE
    /\ upstream = FALSE
    /\ scpConfig = {}
    /\ deliveryRemote = "none"
    /\ remotes = {}
    /\ branchExists = FALSE
    /\ head = "pipeline"
    /\ dotDelivery = FALSE
    /\ buildCookbook = FALSE
    /\ configJson = 0
    /\ cacheDir = FALSE
    /\ generatorCached = FALSE
    /\ result = "none"
    /\ error = "none"
    /\ custom_build_cookbook_generated = FALSE
    /\ custom_config_passed = FALSE
    /\ log = <<>>
    /\ rerun = FALSE

\* project/mod.rs:46-80 one call of SourceCodeProvider::new
New ==
    /\ pc = "new"
    /\ pc' = "returned"
    /\ ret' = SourceCodeProvider_new(init_opts.scp, init_opts.repo, init_opts.org,
                                     init_opts.branch, init_opts.no_ssl)
    /\ UNCHANGED <<optVars, serverVars, gitVars, fsVars, result, error,
                   custom_build_cookbook_generated, custom_config_passed, log, rerun>>

NextNew == New

SpecNew == InitNew /\ [][NextNew]_vars

----------------------------------------------------------------------------
\* The git-root probe and create_dot_delivery on a directory tree.  A path is the
\* sequence of its components, <<>> is the root directory.  init_opts holds the
\* working directory and the paths that exist, ret the directory the walk is at
\* and then the value returned, dotDelivery the paths of the .delivery directories.
MaxDepth == 2

MaxRepos == 2

DirNames == {"a", "b"}

Dirs == UNION {[1..k -> DirNames] : k \in 0..MaxDepth}

GitConfig == <<".git", "config">>

\* Path::join with a relative path
join(path, rel) == path \o rel

\* Path::parent of a path that has one
parent(path) == SubSeq(path, 1, Len(path) - 1)

None == [some |-> FALSE, path |-> <<>>]

Some(path) == [some |-> TRUE, path |-> path]

\* The loop body that gives up at the root directory without looking into it.
walk_iteration_root_unchecked(files, current, target) ==
    IF current = <<>>
    THEN [done |-> TRUE, ans |-> None, current |-> current]
    ELSE IF join(current, target) \in files
         THEN [done |-> TRUE, ans |-> Some(join(current, target)), current |-> current]
         ELSE [done |-> FALSE, ans |-> None, current |-> parent(current)]

\* utils/mod.rs:72-82 one iteration of the loop of walk_tree_for_path
walk_iteration(files, current, target) ==
    IF join(current, target) \in files
    THEN [done |-> TRUE, ans |-> Some(join(current, target)), current |-> current]
    ELSE IF current # <<>>
         THEN [done |-> FALSE, ans |-> None, current |-> parent(current)]
         ELSE [done |-> TRUE, ans |-> None, current |-> current]

\* project/mod.rs:190 root_dir, given the answer of the walk for .git/config
root_dir(found) ==
    IF found.some
    THEN [err |-> "none", path |-> parent(parent(found.path))]
    ELSE [err |-> "NoGitConfig", path |-> <<>>]

\* project/mod.rs:265 create_dot_delivery: Path::new(".delivery") is relative, so
\* fs::create_dir_all makes it in the working directory
create_dot_delivery(cwd) == join(cwd, <<".delivery">>)

\* The repositories of a tree: at most MaxRepos directories hold .git/config.
Repositories == {D \in SUBSET Dirs : Cardinality(D) <= MaxRepos}

InitWalk ==
    /\ \E d \in Dirs, D \in Repositories :
          /\ init_opts = [dir |-> d, files |-> {join(r, GitConfig) : r \in D}]
          /\ ret = d
          /\ dotDelivery \in {{}, {create_dot_delivery(d)}}
    /\ pc = "walk"
    /\ projectExists = FALSE
    /\ pipelineExists = FALSE
    /\ upstream = FALSE
    /\ scpConfig = {}
    /\ deliveryRemote = "none"
    /\ remotes = {}
    /\ branchExists = FALSE
    /\ head = "pipeline"
    /\ buildCookbook = FALSE
    /\ configJson = 0
    /\ cacheDir = FALSE
    /\ generatorCached = FALSE
    /\ result = "none"
    /\ error = "none"
    /\ custom_build_cookbook_generated = FALSE
    /\ custom_config_passed = FALSE
    /\ log = <<>>
    /\ rerun = FALSE

\* utils/mod.rs:70 walk_tree_for_path(dir, ".git/config"), one iteration per step
WalkTreeForPath ==
    /\ pc = "walk"
    /\ LET w == walk_iteration(init_opts.files, ret, GitConfig)
       IN  IF w.done
           THEN pc' = "walked" /\ ret' = w.ans
           ELSE pc' = "walk" /\ ret' = w.current
    /\ UNCHANGED <<optVars, serverVars, gitVars, fsVars, result, error,
                   custom_build_cookbook_generated, custom_config_passed, log, rerun>>

\* init.rs:58 project_path(): root_dir(cwd).unwrap()
RootDir ==
    /\ pc = "walked"
    /\ LET r == root_dir(ret)
       IN  /\ ret' = r.path
           /\ error' = r.err
           /\ result' = IF r.err = "none" THEN "none" ELSE "err"
           /\ pc' = IF r.err = "none" THEN "rooted" ELSE "done"
    /\ UNCHANGED <<optVars, serverVars, gitVars, fsVars,
                   custom_build_cookbook_generated, custom_config_passed, log, rerun>>

\* init.rs:59 project::create_dot_delivery()
CreateDotDeliveryInCwd ==
    /\ pc = "rooted"
    /\ pc' = "dot_made"
    /\ dotDelivery' = dotDelivery \cup {create_dot_delivery(init_opts.dir)}
    /\ UNCHANGED <<optVars, serverVars, gitVars, buildCookbook, configJson, cacheDir,
                   generatorCached, result, error, ret,
                   custom_build_cookbook_generated, custom_config_passed, log, rerun>>

NextWalk ==
    \/ WalkTreeForPath
    \/ RootDir
    \/ CreateDotDeliveryInCwd

SpecWalk == InitWalk /\ [][NextWalk]_vars

----------------------------------------------------------------------------
\* Reading the log of a run.

InLog(c) == Called(log, c)

AnyInLog(cs) == \E i \in 1..Len(log) : log[i] \in cs

Count(calls, c) == Cardinality({i \in 1..Len(calls) : calls[i] = c})

\* The positions of the calls of cs in the log.
Positions(cs) == {i \in 1..Len(log) : log[i] \in cs}

\* The calls a step has added to the log.
Added == SubSeq(log', Len(log) + 1, Len(log'))

CommitCalls == {"commit:Adds Delivery build cookbook and config",
                "commit:Adds Delivery build cookbook", "commit:config"}

BranchCalls == {"checkout_b", "checkout"}

\* Calls that go to the Delivery server: the API and git over the 'delivery' remote.
ApiCalls == {"get_github_server_config", "get_bitbucket_server_config",
             "create_github_project", "create_bitbucket_project",
             "project_exists", "create_delivery_project",
             "pipeline_exists", "create_pipeline", "review"}

PushCalls == {"git_push_master", "git_push"}

LinkCalls == {"create_github_project", "create_bitbucket_project"}

\* Calls that create something.
CreationCalls == LinkCalls \cup PushCalls \cup CommitCalls
                 \cup {"create_delivery_project", "create_pipeline", "remote_add",
                       "chef_generate_build_cookbook", "chef_generate_cookbook_g",
                       "copy_config", "review"}

External == <<serverVars, gitVars, fsVars>>

----------------------------------------------------------------------------
\* C1: when both a GitHub organization and a Bitbucket project key are given, run
\* returns exit code 1 at its first step: it makes no call to any collaborator
\* and leaves the server, the git repository and the filesystem as they were.
BothGiven == init_opts.github_org_name # "" /\ init_opts.bitbucket_project_key # ""

C1_DualProviderNoSideEffect ==
    [][ (BothGiven /\ pc # "done")
          => /\ pc' = "done"
             /\ result' = "1"
             /\ log' = <<>>
             /\ UNCHANGED External ]_vars

C1_Witness ==
    /\ BothGiven
    /\ pc = "done"
    /\ result = "1"

\* C2: a run that follows a run that returned 0, with the same options, makes no
\* creation call and, unless a collaborator fails, returns 0 again.
C2_SecondRunIsNoOp ==
    rerun => /\ ~AnyInLog(CreationCalls)
             /\ (pc = "done" /\ error # "failed") => result = "0"

\* C3: when the custom generator has run and .delivery/config.json does not exist,
\* run returns 1 with MissingConfigFile and nothing of the later steps was called;
\* MissingConfigFile is reported in no other situation.
LaterThanCookbook == BranchCalls \cup CommitCalls
                     \cup {"file_needs_updated", "copy_config", "trigger_review", "review"}

C3_MissingConfigFileHalts ==
    /\ [](error = "MissingConfigFile"
            => /\ pc = "done" /\ result = "1"
               /\ init_opts.generator # "none"
               /\ configJson = 0
               /\ log[Len(log)] = "chef_generate_cookbook_g"
               /\ ~AnyInLog(LaterThanCookbook))
    /\ [][ (pc = "chef_generate" /\ error' # "failed" /\ configJson' = 0)
             => (pc' = "done" /\ result' = "1" /\ error' = "MissingConfigFile") ]_vars

C3_Witness ==
    /\ error = "MissingConfigFile"
    /\ init_opts.config_json # 0
    /\ result = "1"

\* C4: the feature branch is ensured only when a custom cookbook was generated or
\* the config was copied in this run, and a review is triggered only when that
\* holds and local is not set; run enters the branch path exactly when the
\* condition holds, and a run that returns 0 has ensured the branch if and only if
\* the condition holds and has triggered a review if and only if it holds and
\* local is not set. Without the condition there is no branch, commit or review.
CustomArtifacts == InLog("chef_generate_cookbook_g") \/ InLog("copy_config")

C4_BranchDecision ==
    /\ AnyInLog(BranchCalls) => CustomArtifacts
    /\ AnyInLog(CommitCalls) => AnyInLog(BranchCalls)
    /\ InLog("trigger_review")
         => (CustomArtifacts /\ ~init_opts.local /\ AnyInLog(BranchCalls))
    /\ pc \in {"branch", "commit", "review", "finish"} => CustomArtifacts
    /\ pc \in {"commit", "review", "finish"} => AnyInLog(BranchCalls)
    /\ pc = "no_custom" => ~CustomArtifacts
    /\ (pc = "done" /\ result = "0")
         => /\ AnyInLog(BranchCalls) <=> CustomArtifacts
            /\ AnyInLog(CommitCalls) <=> CustomArtifacts
            /\ InLog("trigger_review") <=> (CustomArtifacts /\ ~init_opts.local)

C4_Witness ==
    /\ pc = "done" /\ result = "0"
    /\ InLog("copy_config") /\ ~InLog("chef_generate_cookbook_g")
    /\ InLog("checkout_b") /\ InLog("trigger_review")

\* C5: in a run every commit comes after the feature branch was ensured, with that
\* branch checked out; the review is triggered after a commit; and run moves
\* through HasCustomArtifacts, BranchEnsured, Committed, Done in that order,
\* never back to an earlier step.
Rank(p) ==
    CASE p = "validate" -> 0
      [] p = "dot" -> 1
      [] p = "verify" -> 2
      [] p \in {"link", "project"} -> 3
      [] p = "remote" -> 4
      [] p = "push" -> 5
      [] p = "pipeline" -> 6
      [] p \in {"default_cookbook", "custom_generator"} -> 7
      [] p = "chef_generate" -> 8
      [] p = "config" -> 9
      [] p \in {"branch", "no_custom"} -> 10
      [] p = "commit" -> 11
      [] p \in {"review", "finish"} -> 12
      [] p = "done" -> 13

C5_OrderInRun ==
    /\ [](/\ \A i \in Positions(CommitCalls) : \E j \in Positions(BranchCalls) : j < i
          /\ \A i \in Positions({"trigger_review"}) :
                \E j \in Positions(CommitCalls) : j < i
          /\ pc \in {"commit", "review", "finish"} => head = "feature")
    /\ [][ /\ pc # "done" => Rank(pc') > Rank(pc)
           /\ pc = "branch" => pc' \in {"commit", "done"}
           /\ pc = "commit" => pc' \in {"review", "finish", "done"}
           /\ pc' = "commit" => pc = "branch"
           /\ pc' \in {"review", "finish"} => pc = "commit" ]_vars

C5_Witness ==
    /\ pc = "done" /\ result = "0"
    /\ head = "feature"
    /\ InLog("checkout") /\ AnyInLog(CommitCalls) /\ InLog("review")

\* C6: the project and the pipeline materializer ask their probe first; when the
\* resource is present they make no creation call and return false, when it is
\* absent they make exactly one creation call and return true.
C6_ProbeThenCreate ==
    [][ /\ pc = "project"
          => /\ Added[1] = "project_exists"
             /\ projectExists => ~Called(Added, "create_delivery_project")
             /\ (projectExists /\ pc' = "remote") => ret' = "false"
             /\ (~projectExists /\ pc' = "remote")
                  => /\ Count(Added, "create_delivery_project") = 1
                     /\ ret' = "true"
        /\ pc = "pipeline"
          => /\ Added[1] = "pipeline_exists"
             /\ pipelineExists => ~Called(Added, "create_pipeline")
             /\ (pipelineExists /\ pc' # "done") => ret' = "false"
             /\ (~pipelineExists /\ pc' # "done")
                  => /\ Count(Added, "create_pipeline") = 1
                     /\ ret' = "true" ]_vars

C6_Witness ==
    /\ pc = "done" /\ result = "0"
    /\ InLog("project_exists") /\ ~InLog("create_delivery_project")
    /\ InLog("create_pipeline")

\* C7: the initial push is made if and only if the pipeline has no upstream
\* commit; with upstream history there is no push and the materializer returns
\* false, and upstream history, once there, stays: no later run pushes over it.
C7_PushOnlyWithoutUpstream ==
    [][ /\ upstream => (upstream' /\ ~Called(Added, "git_push_master"))
        /\ (pc = "push" /\ pc' # "done")
             => /\ upstream => ret' = "false"
                /\ ~upstream => (ret' = "true" /\ Called(Added, "git_push_master")
                                 /\ upstream') ]_vars

C7_Witness ==
    /\ rerun
    /\ pc = "done" /\ result = "0"
    /\ InLog("server_content") /\ ~InLog("git_push_master")

\* C8: with the local flag no call goes to the server: no API call, no 'delivery'
\* remote, no push, no review.
ServerSideCalls == ApiCalls \cup PushCalls
                   \cup {"config_repo", "remote_add", "server_content", "trigger_review"}

C8_LocalNoServerStep == init_opts.local => ~AnyInLog(ServerSideCalls)

\* C9: with a provider and without local, the first call of the server path asks
\* for the provider's configuration; when it is empty the run ends with the
\* provider's missing-config error and makes no link, remote or push call;
\* the link call of the provider precedes every remote and push call.
RemoteAndPushCalls == {"config_repo", "remote_add", "server_content", "git_push_master"}

LinkCall(kind) ==
    IF kind = "github" THEN "create_github_project" ELSE "create_bitbucket_project"

MissingConfigError(kind) ==
    IF kind = "github" THEN "NoGithubSCPConfig" ELSE "NoBitbucketSCPConfig"

C9_VerifyThenLink ==
    (scp.kind \in Providers /\ ~BothGiven /\ ~init_opts.local)
      => LET k == scp.kind
             serverPath == Positions(ApiCalls \cup RemoteAndPushCalls)
         IN  /\ \A i \in serverPath :
                    \E j \in 1..i : log[j] = GetServerConfigCall(k)
             /\ \A i \in Positions(RemoteAndPushCalls) :
                    \E j \in 1..i : log[j] = LinkCall(k)
             /\ \A i \in Positions(LinkCalls) : log[i] = LinkCall(k)
             /\ k \notin scpConfig
                  => /\ ~AnyInLog(LinkCalls \cup RemoteAndPushCalls)
                     /\ pc \in {"validate", "dot", "verify", "done"}
                     /\ (pc = "done" /\ error # "failed")
                          => (result = "err" /\ error = MissingConfigError(k))
             /\ error \in {"NoGithubSCPConfig", "NoBitbucketSCPConfig"}
                  => (k \notin scpConfig /\ error = MissingConfigError(k))

C9_Witness ==
    /\ scp.kind = "bitbucket"
    /\ error = "NoBitbucketSCPConfig"
    /\ log = <<"create_dir_all", "get_bitbucket_server_config">>

\* C10: a missing provider configuration on the server ends run with exit code 1.
C10_MissingProviderConfigExit1 ==
    error \in {"NoGithubSCPConfig", "NoBitbucketSCPConfig"} => result = "1"

----------------------------------------------------------------------------
\* C11: SourceCodeProvider::new returns a descriptor only for the kinds github and
\* bitbucket with a non-empty repository, organization or project key, and branch;
\* an unknown kind is refused with UnknownProjectType, a known kind with an empty
\* field with OptionConstraint, no default is substituted, and the descriptor
\* returned holds the inputs unchanged, with verify_ssl the negation of no_ssl.
C11_NewDescriptor ==
    pc = "returned" =>
        LET a == init_opts
            known == a.scp = "github" \/ a.scp = "bitbucket"
            complete == a.repo # "" /\ a.org # "" /\ a.branch # ""
        IN  /\ ret.err = "none" <=> (known /\ complete)
            /\ ~known => ret.err = "UnknownProjectType"
            /\ (known /\ ~complete) => ret.err = "OptionConstraint"
            /\ ret.err = "none" =>
                  /\ ret.kind = a.scp
                  /\ ret.repo_name = a.repo
                  /\ ret.organization = a.org
                  /\ ret.branch = a.branch
                  /\ ret.verify_ssl = ~a.no_ssl

C11_Witness ==
    /\ pc = "returned"
    /\ init_opts.scp = "bitbucket"
    /\ init_opts.no_ssl
    /\ ret.err = "none"
    /\ ~ret.verify_ssl

\* C12: when exactly one provider is selected and a required provider field is
\* empty, run halts at its first step, before any call and with the server, the git
\* repository and the filesystem untouched, and its outcome is exit code 1.
OneProvider ==
    (init_opts.github_org_name # "") # (init_opts.bitbucket_project_key # "")

FieldMissing == init_opts.repo_name = "" \/ init_opts.pipeline = ""

C12_EmptyFieldExit1 ==
    [][ (OneProvider /\ FieldMissing /\ pc # "done")
          => /\ pc' = "done"
             /\ log' = <<>>
             /\ UNCHANGED External
             /\ result' = "1" ]_vars

\* C12 as the code has it: the same halt before any side effect, and run ends
\* with the OptionConstraint error of the descriptor, not with exit code 1.
C12_EmptyFieldHaltsWithOptionConstraint ==
    [][ (OneProvider /\ FieldMissing /\ pc # "done")
          => /\ pc' = "done"
             /\ log' = <<>>
             /\ UNCHANGED External
             /\ result' = "err"
             /\ error' = "OptionConstraint" ]_vars

C12_Witness ==
    /\ OneProvider
    /\ FieldMissing
    /\ pc = "done"
    /\ error = "OptionConstraint"
    /\ log = <<>>
    /\ ~dotDelivery

\* C13: create_feature_branch_if_missing converges on the branch
\* add-delivery-config: when the branch is absent it is created and checked out and
\* the answer is true; when it exists it is checked out and the answer is false,
\* with no error; in both cases the branch exists and is the one checked out
\* afterwards.  Any other failure of git ends run with an error, with no answer
\* and the repository as it was.
C13_FeatureBranchConverges ==
    [][ pc = "branch"
          => IF pc' = "commit"
             THEN /\ branchExists'
                  /\ head' = "feature"
                  /\ branchExists  => (ret' = "false" /\ Added = <<"checkout_b", "checkout">>)
                  /\ ~branchExists => (ret' = "true" /\ Added = <<"checkout_b">>)
                  /\ result' = "none"
             ELSE /\ pc' = "done"
                  /\ result' = "err"
                  /\ UNCHANGED <<gitVars, ret>> ]_vars

C13_Witness ==
    /\ pc = "commit"
    /\ ret = "false"
    /\ head = "feature"
    /\ InLog("checkout")
    /\ ~rerun

\* C14: download_or_mv_custom_build_cookbook_generator copies a filesystem-path
\* generator into the cache on every call and answers Disk; it clones a URL
\* generator into the cache and answers Git when the generator's directory is not
\* in the cache yet, and answers Cached without a clone when it is; afterwards the
\* directory handed to the scaffolding tool holds the generator.
C14_GeneratorMaterialized ==
    [][ (pc = "custom_generator" /\ pc' = "chef_generate")
          => /\ init_opts.generator = "path"
                  => (ret' = "Disk" /\ Called(Added, "copy_recursive"))
             /\ (init_opts.generator = "url" /\ ~generatorCached)
                  => (ret' = "Git" /\ Called(Added, "clone"))
             /\ (init_opts.generator = "url" /\ generatorCached)
                  => (ret' = "Cached" /\ ~Called(Added, "clone"))
             /\ generatorCached' ]_vars

\* C15: trigger_review, for Bitbucket and for no provider, submits exactly one
\* review and then handles the result, opening the browser unless no_open is set;
\* for GitHub it submits no review and prints the 'add origin remote' instructions
\* exactly when no remote is named origin.
GithubGiven == init_opts.github_org_name # "" /\ init_opts.bitbucket_project_key = ""

C15_ReviewByProvider ==
    [][ (pc = "review" /\ pc' = "done" /\ result' = "0")
          => IF GithubGiven
             THEN /\ ~Called(Added, "review")
                  /\ Called(Added, "setup_github_remote_msg") <=> Origin \notin remotes
             ELSE /\ Count(Added, "review") = 1
                  /\ Count(Added, "handle_review_result") = 1
                  /\ Called(Added, "open_browser") <=> ~init_opts.no_open ]_vars

\* C16: run returns 0 only from its last step, with no failure; it returns 1 in
\* exactly two situations, the dual provider selection and a missing
\* .delivery/config.json after the custom generator has run; every other end of
\* run is an error that names its cause.
LastSteps == {"review", "finish", "no_custom"}

C16_TerminalOutcome ==
    [][ (pc # "done" /\ pc' = "done")
          => LET dual == pc = "validate" /\ BothGiven
                 missing == /\ pc = "chef_generate"
                            /\ Added = <<"chef_generate_cookbook_g">>
                            /\ error' # "failed"
                            /\ configJson' = 0
             IN  /\ result' \in {"0", "1", "err"}
                 /\ result' = "1" <=> (dual \/ missing)
                 /\ missing => error' = "MissingConfigFile"
                 /\ result' = "0" => (pc \in LastSteps /\ error' = "none")
                 /\ result' = "err" => error' \notin {"none", "MissingConfigFile"} ]_vars

C16_Witness ==
    /\ pc = "done"
    /\ result = "err"
    /\ error = "remote"
    /\ projectExists
    /\ ~pipelineExists

\* C17: with no provider, not local, the default cookbook and no config JSON, on a
\* repository with no project, remote, upstream history, pipeline or scaffold, the
\* run creates the project, adds the remote, pushes the history, creates the
\* pipeline, generates the default cookbook, creates no feature branch, triggers a
\* review and returns 0.
PlainOptions ==
    /\ init_opts.github_org_name = ""
    /\ init_opts.bitbucket_project_key = ""
    /\ ~init_opts.local
    /\ ~init_opts.skip_build_cookbook
    /\ init_opts.generator = "none"
    /\ init_opts.config_json = 0

FreshRunCalls ==
    <<"create_dir_all", "project_exists", "create_delivery_project",
      "config_repo", "remote_add", "server_content", "git_push_master",
      "pipeline_exists", "create_pipeline",
      "exists_build_cookbook", "chef_generate_build_cookbook", "git_push">>

\* The run has found every resource absent and created it.
CreatedEverything ==
    \A c \in {"create_delivery_project", "remote_add", "git_push_master",
               "create_pipeline", "chef_generate_build_cookbook"} : InLog(c)

C17_FreshRunTriggersReview ==
    (PlainOptions /\ pc = "done" /\ result = "0" /\ CreatedEverything)
      => /\ ~AnyInLog(BranchCalls)
         /\ InLog("trigger_review")

\* C17 as the code has it: the same run, but with no review: the default cookbook
\* is committed and pushed by the default variant itself, and the run ends at the
\* step that follows the config step, with exactly the calls of FreshRunCalls.
C17_FreshRunNoReview ==
    /\ [](PlainOptions =>
            /\ ~AnyInLog(BranchCalls \cup CommitCalls \cup {"trigger_review", "review"})
            /\ head = "pipeline"
            /\ (pc = "done" /\ result = "0" /\ CreatedEverything)
                 => log = FreshRunCalls)
    /\ [][ (PlainOptions /\ error' # "failed") =>
            /\ (pc = "project" /\ ~projectExists)
                 => (pc' = "remote" /\ projectExists'
                     /\ Added = <<"project_exists", "create_delivery_project">>)
            /\ (pc = "remote" /\ deliveryRemote = "none")
                 => (pc' = "push" /\ deliveryRemote' = "ok"
                     /\ Added = <<"config_repo", "remote_add">>)
            /\ (pc = "push" /\ ~upstream)
                 => (pc' = "pipeline" /\ upstream'
                     /\ Added = <<"server_content", "git_push_master">>)
            /\ (pc = "pipeline" /\ ~pipelineExists)
                 => (pc' = "default_cookbook" /\ pipelineExists'
                     /\ Added = <<"pipeline_exists", "create_pipeline">>)
            /\ (pc = "default_cookbook" /\ ~buildCookbook)
                 => (pc' = "config" /\ buildCookbook'
                     /\ Added = <<"exists_build_cookbook",
                                  "chef_generate_build_cookbook", "git_push">>)
            /\ pc = "config" => (pc' = "no_custom" /\ Added = <<>>)
            /\ pc = "no_custom" => (pc' = "done" /\ result' = "0" /\ Added = <<>>) ]_vars

C17_Witness ==
    /\ PlainOptions
    /\ pc = "done"
    /\ result = "0"
    /\ ~rerun
    /\ log = FreshRunCalls

\* C18: with GitHub as the provider, when the run generates no custom cookbook and
\* copies no config, it triggers no review, creates no branch and makes no commit,
\* prints the GitHub remote hint only if no remote is named origin, and returns 0
\* unless a collaborator fails; and the branch materializer, run while
\* add-delivery-config exists, answers false ("switched to existing") and run
\* goes on.
C18_GithubNothingCustom ==
    /\ []((GithubGiven /\ pc = "done" /\ result = "0" /\ ~CustomArtifacts)
            => /\ ~AnyInLog(BranchCalls \cup CommitCalls \cup {"trigger_review", "review"})
               /\ (InLog("setup_github_remote_msg") => Origin \notin remotes))
    /\ [][ /\ (GithubGiven /\ pc = "no_custom" /\ error' # "failed")
                => (pc' = "done" /\ result' = "0")
           /\ (pc = "branch" /\ branchExists /\ error' # "failed")
                => (pc' = "commit" /\ ret' = "false" /\ head' = "feature") ]_vars

C18_Witness ==
    /\ GithubGiven
    /\ projectExists
    /\ branchExists
    /\ remotes = {Fork}
    /\ pc = "done"
    /\ result = "0"
    /\ ~CustomArtifacts
    /\ InLog("setup_github_remote_msg")

\* C19: generate_delivery_config, without a config JSON option, does nothing and
\* answers false; with one, it copies the file to .delivery/config.json and answers
\* true exactly when that file is absent or differs in content; when the contents
\* are the same it copies nothing, answers false and, if no custom cookbook was
\* generated either, run goes to the step without branch, commit or review.
C19_ConfigCopiedWhenDifferent ==
    [][ (pc = "config" /\ error' # "failed")
          => LET j == init_opts.config_json
                 differs == configJson = 0 \/ configJson # j
             IN  /\ j = 0
                      => /\ Added = <<>>
                         /\ ret' = "false" /\ ~custom_config_passed'
                         /\ configJson' = configJson
                 /\ (j # 0 /\ differs)
                      => /\ Called(Added, "copy_config")
                         /\ ret' = "true" /\ custom_config_passed'
                         /\ configJson' = j
                 /\ (j # 0 /\ ~differs)
                      => /\ ~Called(Added, "copy_config")
                         /\ ret' = "false" /\ ~custom_config_passed'
                         /\ configJson' = configJson
                         /\ ~custom_build_cookbook_generated => pc' = "no_custom" ]_vars

C19_Witness ==
    /\ init_opts.config_json # 0
    /\ configJson = init_opts.config_json
    /\ pc = "no_custom"
    /\ ret = "false"
    /\ log[Len(log)] = "file_needs_updated"

\* C20: create_delivery_remote_if_missing adds the remote 'delivery' and answers
\* "created" when there is none; does nothing and answers "not created" when it is
\* configured with the right URL; and when it is configured with another URL it
\* ends run with an error and leaves the remote as it is.  No step ever changes a
\* remote that points elsewhere.
C20_RemoteNeverOverwritten ==
    [][ /\ (pc = "remote" /\ error' # "failed")
             => /\ deliveryRemote = "none"
                     => /\ Added = <<"config_repo", "remote_add">>
                        /\ deliveryRemote' = "ok"
                        /\ ret' = "true" /\ pc' = "push"
                /\ deliveryRemote = "ok"
                     => /\ Added = <<"config_repo">>
                        /\ deliveryRemote' = "ok"
                        /\ ret' = "false" /\ pc' = "push"
                /\ deliveryRemote = "other"
                     => /\ ~Called(Added, "remote_add")
                        /\ pc' = "done" /\ result' = "err" /\ error' = "remote"
        /\ deliveryRemote = "other" => deliveryRemote' = "other"
        /\ Called(Added, "remote_add") => (pc = "remote" /\ deliveryRemote = "none") ]_vars

C20_Witness ==
    /\ pc = "done"
    /\ result = "err"
    /\ error = "remote"
    /\ deliveryRemote = "other"
    /\ log[Len(log)] = "config_repo"

\* C21: walk_tree_for_path ends for every start directory, each iteration moving
\* to a shorter path; it returns dir/target for the nearest directory, among the
\* start directory and its ancestors, that holds the target, and None exactly when
\* none of them does; root_dir returns that directory, or NoGitConfig when the
\* walk found nothing; the probe changes no path.
Ancestors(dir) == {SubSeq(dir, 1, k) : k \in 0..Len(dir)}

Holders == {a \in Ancestors(init_opts.dir) : join(a, GitConfig) \in init_opts.files}

Nearest == CHOOSE a \in Holders : \A b \in Holders : Len(b) <= Len(a)

C21_GitRootProbe ==
    /\ [](/\ pc = "walk" => (ENABLED WalkTreeForPath /\ ret \in Ancestors(init_opts.dir))
          /\ pc = "walked" => /\ ret.some <=> Holders # {}
                              /\ ret.some => ret.path = join(Nearest, GitConfig)
          /\ pc = "rooted" => (Holders # {} /\ ret = Nearest /\ error = "none")
          /\ pc = "done" => (Holders = {} /\ error = "NoGitConfig"))
    /\ [][ /\ (pc = "walk" /\ pc' = "walk") => Len(ret') < Len(ret)
           /\ init_opts' = init_opts ]_vars

C21_Witness ==
    /\ pc = "rooted"
    /\ Cardinality(Holders) = 2
    /\ Len(ret) = 1
    /\ Len(init_opts.dir) = 2

\* C22: every creation call of a run (project, provider link, pipeline, remote
\* add, initial push, feature branch, default and custom scaffold, config copy) is
\* immediately preceded, in the same run, by a probe of the same resource.
ProbedCreations ==
    LinkCalls \cup {"create_delivery_project", "create_pipeline", "remote_add",
                    "git_push_master", "checkout_b", "chef_generate_build_cookbook",
                    "chef_generate_cookbook_g", "copy_config"}

\* The probes the code has for a creation call; none for the provider link, the
\* feature branch and the custom scaffold.
ProbesOf(c) ==
    CASE c = "create_delivery_project" -> {"project_exists"}
      [] c = "create_pipeline" -> {"pipeline_exists"}
      [] c = "remote_add" -> {"config_repo"}
      [] c = "git_push_master" -> {"server_content"}
      [] c = "chef_generate_build_cookbook" -> {"exists_build_cookbook"}
      [] c = "copy_config" -> {"file_needs_updated"}
      [] OTHER -> {}

C22_ProbeBeforeEveryCreation ==
    \A i \in Positions(ProbedCreations) : i > 1 /\ log[i - 1] \in ProbesOf(log[i])

\* C23: a step that fails ends run: nothing is done afterwards in that run, the
\* failing step leaves the server, the git repository and .delivery as the earlier
\* steps made them, and no step ever removes or reverts a resource: a project,
\* pipeline, pushed history, remote, branch, checkout, directory, scaffold, config
\* or cache entry that exists stays.
C23_NoRollback ==
    [][ /\ (pc # "done" /\ result' \in {"1", "err"})
             => /\ pc' = "done"
                /\ UNCHANGED <<serverVars, gitVars, dotDelivery>>
        /\ pc = "done" => (UNCHANGED External /\ log' = <<>>)
        /\ projectExists => projectExists'
        /\ pipelineExists => pipelineExists'
        /\ upstream => upstream'
        /\ deliveryRemote # "none" => deliveryRemote' = deliveryRemote
        /\ branchExists => branchExists'
        /\ head = "feature" => head' = "feature"
        /\ dotDelivery => dotDelivery'
        /\ buildCookbook => buildCookbook'
        /\ configJson # 0 => configJson' # 0
        /\ cacheDir => cacheDir'
        /\ generatorCached => generatorCached' ]_vars

C23_Witness ==
    /\ pc = "done"
    /\ result = "err"
    /\ error = "failed"
    /\ log[Len(log)] = "create_pipeline"
    /\ InLog("create_delivery_project") /\ InLog("remote_add") /\ InLog("git_push_master")
    /\ projectExists /\ deliveryRemote = "ok" /\ upstream /\ dotDelivery
    /\ ~pipelineExists

\* C24: in a non-local run, for every provider kind, once the server steps are
\* over the run has ensured the server project, the pipeline, the 'delivery' remote
\* and the initial push (the provider's link call counting for the project and
\* the pipeline).
ServerStepsOver == Rank(pc) >= 7 /\ pc # "done"

C24_ServerResourcesEnsured ==
    (~init_opts.local /\ ServerStepsOver)
      => /\ InLog("project_exists") \/ AnyInLog(LinkCalls)
         /\ InLog("pipeline_exists") \/ AnyInLog(LinkCalls)
         /\ InLog("config_repo") /\ deliveryRemote = "ok"
         /\ InLog("server_content") /\ upstream

\* C25: in the no-provider and Bitbucket paths the initial push is attempted only
\* after the 'delivery' remote was ensured; without a provider the calls come in
\* the order project, remote, push, pipeline; and in a non-local run every server
\* call is made, and the last server step of the path has succeeded, before any
\* call of the cookbook, config, branch or commit steps.
NoProvider == init_opts.github_org_name = "" /\ init_opts.bitbucket_project_key = ""

BitbucketGiven == init_opts.github_org_name = "" /\ init_opts.bitbucket_project_key # ""

SetupCalls == (ApiCalls \ {"review"}) \cup RemoteAndPushCalls

GenerationCalls ==
    BranchCalls \cup CommitCalls
    \cup {"exists_build_cookbook", "chef_generate_build_cookbook", "git_push",
          "mkdir_recursive", "copy_recursive", "clone", "chef_generate_cookbook_g",
          "file_needs_updated", "copy_config", "git_add_dot_delivery", "git_add_config"}

Before(as, bs) == \A i \in Positions(as), j \in Positions(bs) : i < j

C25_ServerPathOrder ==
    /\ []((~init_opts.local /\ ~GithubGiven)
            => \A i \in Positions({"server_content", "git_push_master"}) :
                  \E j \in 1..(i - 1) : log[j] = "config_repo")
    /\ [](NoProvider
            => /\ Before({"project_exists", "create_delivery_project"},
                         {"config_repo", "remote_add"})
               /\ Before({"config_repo", "remote_add"},
                         {"server_content", "git_push_master"})
               /\ Before({"server_content", "git_push_master"},
                         {"pipeline_exists", "create_pipeline"}))
    /\ [](~init_opts.local
            => /\ Before(SetupCalls, GenerationCalls)
               /\ AnyInLog(GenerationCalls)
                    => /\ NoProvider => InLog("pipeline_exists")
                       /\ BitbucketGiven => InLog("server_content")
                       /\ GithubGiven => InLog("create_github_project"))
    /\ [][ (~init_opts.local /\ Rank(pc) < 7 /\ Rank(pc') >= 7 /\ pc' # "done")
             => /\ error' = "none"
                /\ NoProvider => (pc = "pipeline" /\ pipelineExists' /\ upstream')
                /\ BitbucketGiven => (pc = "push" /\ upstream')
                /\ GithubGiven => pc = "link" ]_vars

C25_Witness ==
    /\ NoProvider
    /\ ~init_opts.local
    /\ pc = "commit"
    /\ InLog("create_pipeline")
    /\ InLog("git_push_master")
    /\ InLog("chef_generate_cookbook_g")

\* C26: a run that ensures the feature branch and gets past the commit step has
\* made exactly one commit, and no run makes two.  The commit is the build-cookbook
\* commit (git add .delivery) whenever a custom cookbook was generated, its message
\* mentioning the config exactly when no custom config was copied; it is the
\* config-only commit exactly when the config was copied and no custom cookbook
\* was generated.
CookbookGenerated == InLog("chef_generate_cookbook_g")

ConfigCopied == InLog("copy_config")

Commits == Cardinality(Positions(CommitCalls))

C26_CommitSelection ==
    /\ [](Commits <= 1)
    /\ []((AnyInLog(BranchCalls) /\ error = "none" /\ Rank(pc) >= 12) => Commits = 1)
    /\ []((~(CookbookGenerated \/ ConfigCopied)) => Commits = 0)
    /\ [][ (pc = "commit" /\ error' = "none")
             => /\ CookbookGenerated
                    => /\ Added = <<"git_add_dot_delivery",
                                    IF ConfigCopied
                                    THEN "commit:Adds Delivery build cookbook"
                                    ELSE "commit:Adds Delivery build cookbook and config">>
                /\ (Added = <<"git_add_config", "commit:config">>)
                    <=> (ConfigCopied /\ ~CookbookGenerated) ]_vars

C26_Witness ==
    /\ pc = "review"
    /\ ConfigCopied
    /\ InLog("git_add_dot_delivery")
    /\ InLog("commit:Adds Delivery build cookbook")

\* C27: the default variant (no generator, not skipped) invokes the scaffolding
\* tool and then pushes to the pipeline if and only if .delivery/build-cookbook does
\* not exist, and generates and pushes nothing when it exists; either way it
\* reports that no custom cookbook was produced, so that without a copied config
\* there is no branch, commit or review; with skip_build_cookbook neither variant
\* runs, whatever the generator.
DefaultVariantCalls == {"exists_build_cookbook", "chef_generate_build_cookbook", "git_push"}

CustomVariantCalls == {"mkdir_recursive", "copy_recursive", "clone", "chef_generate_cookbook_g"}

AddedCalls == {Added[i] : i \in 1..Len(Added)}

C27_DefaultVariant ==
    /\ [][ (pc = "default_cookbook" /\ pc' # "default_cookbook")
             => /\ buildCookbook => Added = <<"exists_build_cookbook">>
                /\ (~buildCookbook /\ error' = "none")
                     => Added = <<"exists_build_cookbook",
                                  "chef_generate_build_cookbook", "git_push">>
                /\ ("git_push" \in AddedCalls)
                     => ("chef_generate_build_cookbook" \in AddedCalls /\ ~buildCookbook)
                /\ error' = "none"
                     => (~custom_build_cookbook_generated' /\ ret' = "false") ]_vars
    /\ [](AnyInLog(DefaultVariantCalls)
            => (init_opts.generator = "none" /\ ~init_opts.skip_build_cookbook))
    /\ []((AnyInLog(DefaultVariantCalls) /\ ~ConfigCopied)
            => ~AnyInLog(BranchCalls \cup CommitCalls \cup {"trigger_review", "review"}))
    /\ [](init_opts.skip_build_cookbook
            => ~AnyInLog(DefaultVariantCalls \cup CustomVariantCalls))

C27_Witness ==
    /\ pc = "config"
    /\ init_opts.generator = "none"
    /\ InLog("git_push")
    /\ buildCookbook
    /\ ~custom_build_cookbook_generated

\* C28: the origin probe reports 'origin present' if and only if a remote named
\* exactly 'origin' is configured, so that a run that has probed the remotes has
\* printed the GitHub setup hint exactly when no remote is named 'origin'.
C28_OriginProbeExactName ==
    /\ check_github_remote(remotes) <=> (Origin \in remotes)
    /\ (InLog("missing_github_remote") /\ pc = "done" /\ error = "none")
         => (InLog("setup_github_remote_msg") <=> (Origin \notin remotes))

\* C29: after step 2 of run, .delivery exists under the project root (the directory
\* root_dir returns), from whichever directory of the repository run was started;
\* and creating it when it already exists changes nothing and is not an error.
C29_DotDeliveryUnderRoot ==
    /\ [](pc = "dot_made" => join(ret, <<".delivery">>) \in dotDelivery)
    /\ [][ (pc = "rooted" /\ create_dot_delivery(init_opts.dir) \in dotDelivery)
             => (dotDelivery' = dotDelivery /\ error' = "none" /\ pc' = "dot_made") ]_vars

====
